---- MODULE Spec2Model ----
(***************************************************************************)
(* A model of the dog-detection proxy (dog-detection-nest):                *)
(*   DogDetectionController.detectDogs  -> validation of the data URL      *)
(*   DogDetectionService.detectDogs     -> result construction             *)
(*   DogDetectionService.processWithRoboflow -> retry loop with backoff    *)
(*   DogDetectionService.extractDogImages    -> response normalization     *)
(*                                                                         *)
(* JavaScript values are represented as follows.                           *)
(*   - a string is a TLA+ string, except where the code inspects its       *)
(*     characters (the data URL, a prediction's class): there it is a      *)
(*     sequence of one-character strings;                                  *)
(*   - a value that may be undefined/null is None (<<>>) or Some(v)        *)
(*     (<<v>>);                                                            *)
(*   - a confidence is an integer number of hundredths (0.5 is 50);        *)
(*   - a prediction's class is [kind, chars]: kind "undefined" (absent or  *)
(*     falsy), "string" (chars are its characters) or "other" (a truthy    *)
(*     value that is no string, such as a number);                         *)
(*   - a message is a sequence of string pieces, concatenation is \o.      *)
(* The id and timestamp fields of a DetectedDog depend on the clock only   *)
(* (Date.now(), toISOString()) and are left out; the index part of the id  *)
(* (dogs.length) is kept as idIndex.                                       *)
(***************************************************************************)
EXTENDS Integers, Sequences, FiniteSets, TLC

None == <<>>
Some(v) == <<v>>
IsSome(o) == o # None
Get(o) == o[1]

SeqsUpTo(S, n) == UNION {[1..k -> S] : k \in 0..n}

\* ------------------------------------------------------------------------
\* Bounds of the model
\* ------------------------------------------------------------------------
MaxRetryCount == 3
MaxOutputs == 2
MaxCrops == 2
MaxPreds == 2

\* ------------------------------------------------------------------------
\* Program constants
\* ------------------------------------------------------------------------
DefaultRetryCount == 3
DefaultInitialDelayMs == 1000
FirstErrorStatus == 400
ConfidenceThreshold == 50
CropConfidence == 100

\* ------------------------------------------------------------------------
\* Controller: the data-URL pattern
\*   /^data:image\/([a-zA-Z]*);base64,([^\"]*)$/
\* ------------------------------------------------------------------------
DataImagePrefix == <<"d","a","t","a",":","i","m","a","g","e","/">>
Base64Sep == <<";","b","a","s","e","6","4",",">>
Quote == "\""
Letters == {"a","b","c","d","e","f","g","h","i","j","k","l","m",
            "n","o","p","q","r","s","t","u","v","w","x","y","z",
            "A","B","C","D","E","F","G","H","I","J","K","L","M",
            "N","O","P","Q","R","S","T","U","V","W","X","Y","Z"}

StartsWithAt(s, i, p) ==
  /\ i + Len(p) - 1 <= Len(s)
  /\ \A j \in 1..Len(p) : s[i + j - 1] = p[j]

\* the number of characters of s from position i on that [a-zA-Z]* consumes
RECURSIVE LetterRun(_, _)
LetterRun(s, i) ==
  IF i <= Len(s) /\ s[i] \in Letters THEN 1 + LetterRun(s, i + 1) ELSE 0

\* RegexMatch with ([^\"]*) widened to (.*): a double quote in the data passes
RegexMatchLoose(s) ==
  IF ~StartsWithAt(s, 1, DataImagePrefix) THEN None
  ELSE LET b == Len(DataImagePrefix) + 1
           n == LetterRun(s, b)
           e == b + n
       IN IF ~StartsWithAt(s, e, Base64Sep) THEN None
          ELSE LET d == e + Len(Base64Sep)
               IN Some([mimeType   |-> SubSeq(s, b, e - 1),
                        base64Data |-> SubSeq(s, d, Len(s))])

\* image.match(base64Regex): None when there is no match, else the two groups.
\* The letters are matched greedily; the next character must be ';', which is
\* no letter, so no shorter run of letters can match either.
RegexMatch(s) ==
  IF ~StartsWithAt(s, 1, DataImagePrefix) THEN None
  ELSE LET b == Len(DataImagePrefix) + 1
           n == LetterRun(s, b)
           e == b + n
       IN IF ~StartsWithAt(s, e, Base64Sep) THEN None
          ELSE LET d == e + Len(Base64Sep)
               IN IF \E j \in d..Len(s) : s[j] = Quote THEN None
                  ELSE Some([mimeType   |-> SubSeq(s, b, e - 1),
                             base64Data |-> SubSeq(s, d, Len(s))])

\* mimetype: `image/${mimeType}`
FileMimetype(m) == <<"i","m","a","g","e","/">> \o m.mimeType

\* ------------------------------------------------------------------------
\* Service: extractDogImages
\* ------------------------------------------------------------------------
ZeroBox == [x |-> 0, y |-> 0, width |-> 0, height |-> 0]

\* v || d for a number that may be undefined
NumOr(o, d) == IF IsSome(o) /\ Get(o) # 0 THEN Get(o) ELSE d

\* s is a truthy string (possibly undefined)
TruthyStr(o) == IsSome(o) /\ Get(o) # ""

LowerChar(c) ==
  CASE c = "D" -> "d" [] c = "O" -> "o" [] c = "G" -> "g"
    [] c = "C" -> "c" [] c = "A" -> "a" [] c = "T" -> "t"
    [] OTHER -> c
ToLowerCase(s) == [i \in 1..Len(s) |-> LowerChar(s[i])]
DogClass == <<"d","o","g">>

\* crop.type === 'base64' && crop.value
CropQualifies(crop) == crop.type = "base64" /\ crop.value # ""

\* the inner loop over output.dynamic_crop; a null crop throws inside the
\* inner try and is skipped
RECURSIVE CropDogs(_, _, _)
CropDogs(crops, i, dogs) ==
  IF i > Len(crops) THEN dogs
  ELSE LET c == crops[i]
       IN IF IsSome(c) /\ CropQualifies(Get(c))
          THEN CropDogs(crops, i + 1,
                 Append(dogs, [idIndex    |-> Len(dogs),
                               confidence |-> CropConfidence,
                               bbox       |-> ZeroBox,
                               imageData  |-> Get(c).value]))
          ELSE CropDogs(crops, i + 1, dogs)

\* the loop over roboflowResponse.outputs; a null output throws outside the
\* inner try, which ends extractDogImages in its outer catch
RECURSIVE OutputDogs(_, _, _)
OutputDogs(outputs, i, dogs) ==
  IF i > Len(outputs) THEN [threw |-> FALSE, dogs |-> dogs]
  ELSE LET o == outputs[i]
       IN IF ~IsSome(o) THEN [threw |-> TRUE, dogs |-> dogs]
          ELSE IF IsSome(Get(o).dynamic_crop)
               THEN OutputDogs(outputs, i + 1,
                               CropDogs(Get(Get(o).dynamic_crop), 1, dogs))
               ELSE OutputDogs(outputs, i + 1, dogs)

\* PredQualifies with >= in place of >
PredQualifiesAtThreshold(p) ==
  /\ p.class.kind = "string" /\ p.class.chars # <<>>
  /\ ToLowerCase(p.class.chars) = DogClass
  /\ IsSome(p.confidence) /\ Get(p.confidence) >= ConfidenceThreshold

\* pred is null or undefined (pred.class throws), or its class is truthy and
\* no string (pred.class.toLowerCase() throws)
PredThrows(q) == ~IsSome(q) \/ Get(q).class.kind = "other"

\* pred.class && pred.class.toLowerCase() === 'dog' && pred.confidence > 0.5
PredQualifies(p) ==
  /\ p.class.kind = "string" /\ p.class.chars # <<>>
  /\ ToLowerCase(p.class.chars) = DogClass
  /\ IsSome(p.confidence) /\ Get(p.confidence) > ConfidenceThreshold

\* crop?.image, else crops?.[0]?.image, else image; None when none is truthy
PredImage(p) ==
  IF IsSome(p.crop) /\ TruthyStr(Get(p.crop).image) THEN Get(p.crop).image
  ELSE IF /\ IsSome(p.crops) /\ Len(Get(p.crops)) > 0
          /\ IsSome(Get(p.crops)[1]) /\ TruthyStr(Get(Get(p.crops)[1]).image)
       THEN Get(Get(p.crops)[1]).image
  ELSE IF TruthyStr(p.image) THEN p.image
  ELSE None

\* the loop over dogDetections
RECURSIVE PredDogs(_, _, _)
PredDogs(preds, i, dogs) ==
  IF i > Len(preds) THEN dogs
  ELSE LET p == Get(preds[i])
           img == PredImage(p)
       IN IF PredQualifies(p) /\ IsSome(img)
          THEN PredDogs(preds, i + 1,
                 Append(dogs, [idIndex    |-> Len(dogs),
                               confidence |-> NumOr(p.confidence, CropConfidence),
                               bbox       |-> [x      |-> NumOr(p.x, 0),
                                               y      |-> NumOr(p.y, 0),
                                               width  |-> NumOr(p.width, 0),
                                               height |-> NumOr(p.height, 0)],
                               imageData  |-> Get(img)]))
          ELSE PredDogs(preds, i + 1, dogs)

\* UsesPredictions without the test dogs.length === 0
UsesPredictionsAlways(dogs, resp) == IsSome(resp.predictions)

\* dogs.length === 0 && roboflowResponse.predictions && Array.isArray(...)
UsesPredictions(dogs, resp) == Len(dogs) = 0 /\ IsSome(resp.predictions)

\* extractDogImages: threw tells that the outer catch ran (it returns [])
ExtractDogImages(data) ==
  IF ~IsSome(data) THEN [threw |-> TRUE, dogs |-> <<>>]
  ELSE LET resp == Get(data)
           fromCrops == IF IsSome(resp.outputs)
                        THEN OutputDogs(Get(resp.outputs), 1, <<>>)
                        ELSE [threw |-> FALSE, dogs |-> <<>>]
       IN IF fromCrops.threw THEN [threw |-> TRUE, dogs |-> <<>>]
          ELSE IF UsesPredictions(fromCrops.dogs, resp)
               THEN IF \E k \in 1..Len(Get(resp.predictions)) :
                            PredThrows(Get(resp.predictions)[k])
                    THEN [threw |-> TRUE, dogs |-> <<>>]
                    ELSE [threw |-> FALSE,
                          dogs  |-> PredDogs(Get(resp.predictions), 1, fromCrops.dogs)]
               ELSE fromCrops

\* ------------------------------------------------------------------------
\* Service: detectDogs, the DetectionResult it builds
\* ------------------------------------------------------------------------
\* DetectionSuccess with totalDetected off by one
DetectionSuccessMiscounted(dogs) ==
  [success      |-> TRUE,
   detectedDogs |-> dogs,
   error        |-> None,
   debugInfo    |-> [totalDetected |-> Some(Len(dogs) + 1), error |-> None]]

\* the object returned at the end of the try block
DetectionSuccess(dogs) ==
  [success      |-> TRUE,
   detectedDogs |-> dogs,
   error        |-> None,
   debugInfo    |-> [totalDetected |-> Some(Len(dogs)), error |-> None]]

\* the object returned by the catch block; message is error.message
DetectionFailure(message) ==
  [success      |-> FALSE,
   detectedDogs |-> <<>>,
   error        |-> Some(<<"Failed to detect dogs: ">> \o message),
   debugInfo    |-> [totalDetected |-> None, error |-> Some(message)]]

\* ServiceCatch rethrowing the error instead of returning a result
ServiceCatchRethrows(message) ==
  [threw |-> TRUE, message |-> message, value |-> None]

\* what DogDetectionService.detectDogs hands to its caller when
\* processWithRoboflow threw an error with this message
ServiceCatch(message) ==
  [threw |-> FALSE, message |-> <<>>, value |-> Some(DetectionFailure(message))]

\* what DogDetectionService.detectDogs hands to its caller when
\* processWithRoboflow returned data
ServiceReturn(data) ==
  [threw |-> FALSE, message |-> <<>>,
   value |-> Some(DetectionSuccess(ExtractDogImages(data).dogs))]

\* ------------------------------------------------------------------------
\* Controller: the replies of POST api/detect-dogs
\* ------------------------------------------------------------------------
BadRequest(message) == [kind |-> "BadRequest", message |-> message, body |-> None]

NoReply == [kind |-> "pending", message |-> <<>>, body |-> None]

\* the try/catch around dogDetectionService.detectDogs(file)
ControllerReply(outcome) ==
  IF outcome.threw
  THEN BadRequest(IF outcome.message # <<>> THEN outcome.message
                  ELSE <<"Failed to process image">>)
  ELSE [kind |-> "result", message |-> <<>>, body |-> outcome.value]

\* ------------------------------------------------------------------------
\* Service: processWithRoboflow, one attempt (makeRequest) and the errors
\* ------------------------------------------------------------------------
StatusText(status) ==
  CASE status = 400 -> "Bad Request"
    [] status = 404 -> "Not Found"
    [] status = 429 -> "Too Many Requests"
    [] status = 500 -> "Internal Server Error"
    [] OTHER -> "OK"

\* IsFailedStatus with > in place of >=
IsFailedStatusAbove(status) == status > FirstErrorStatus

\* response.status >= 400
IsFailedStatus(status) == status >= FirstErrorStatus

\* new Error(`HTTP ${response.status}: ${response.statusText}`): a plain
\* Error, which has no response property
HttpError(status) ==
  [message  |-> <<"HTTP ", ToString(status), ": ", StatusText(status)>>,
   response |-> None]

\* the error axios.post rejects with. validateStatus always answers true, so
\* axios rejects only when no usable response arrived (a network error, the
\* 60000 ms timeout): such an error has no response property either
RejectError(reason) ==
  [message  |-> IF reason = "timeout" THEN <<"timeout of 60000ms exceeded">>
                ELSE <<"Network Error">>,
   response |-> None]

\* error.response?.status >= 400 && error.response?.status < 500
\*   && error.response?.status !== 429
NoRetry(err) ==
  /\ IsSome(err.response)
  /\ Get(err.response).status >= 400
  /\ Get(err.response).status < 500
  /\ Get(err.response).status # 429

\* BackoffDelay growing linearly instead of doubling
BackoffDelayLinear(initial, k) == initial * k

\* initialDelayMs * Math.pow(2, attempt - 1)
BackoffDelay(initial, k) == initial * 2^(k - 1)

\* LoopContinues running one attempt too many
LoopContinuesOneMore(k, count) == k <= count + 1

\* attempt <= retryCount
LoopContinues(k, count) == k <= count

DefaultErrorMessage ==
  <<"Failed to process image with Roboflow after multiple attempts">>

\* lastError?.response?.data?.message || lastError?.message || '...', with
\* the prefix of the Error thrown after the loop
ThrownMessage(last) ==
  <<"Roboflow API Error: ">> \o
  (IF ~IsSome(last) THEN DefaultErrorMessage
   ELSE LET err == Get(last)
        IN IF /\ IsSome(err.response)
              /\ IsSome(Get(err.response).dataMessage)
              /\ Get(Get(err.response).dataMessage) # <<>>
           THEN Get(Get(err.response).dataMessage)
           ELSE IF err.message # <<>> THEN err.message
           ELSE DefaultErrorMessage)

\* ------------------------------------------------------------------------
\* Inputs: request bodies
\* ------------------------------------------------------------------------
ImagePrefixes == {DataImagePrefix,
                  <<"d","a","t","a",":","t","e","x","t","/">>,
                  <<"x">> \o DataImagePrefix}
ImageSubtypes == {<<>>, <<"p","n","g">>, <<"P","n","G">>, <<"p","n","9">>,
                  <<"a","+","b">>}
ImageSeparators == {Base64Sep, <<";","b","a","s","e","6","4">>, <<",">>}
ImagePayloads == {<<>>, <<"Q","Q","=">>, <<"Q",Quote>>, <<"Q","\n","Q">>}

ImageStrings ==
  {p \o t \o b \o d : p \in ImagePrefixes, t \in ImageSubtypes,
                      b \in ImageSeparators, d \in ImagePayloads}

\* body.image: absent, or a string (the empty string included)
Bodies == {None} \cup {Some(s) : s \in ImageStrings \cup {<<>>}}

\* ------------------------------------------------------------------------
\* Inputs: what the vendor answers
\* ------------------------------------------------------------------------
Crop(t, v) == Some([type |-> t, value |-> v])
CropSet == {None, Crop("base64", "A"), Crop("base64", "B"),
            Crop("base64", ""), Crop("url", "C")}

Output(dc) == Some([dynamic_crop |-> dc])
OutputSmall == {None, Output(None), Output(Some(<<Crop("base64", "A")>>)),
                Output(Some(<<Crop("base64", "B")>>)),
                Output(Some(<<Crop("url", "C")>>))}

\* roboflowResponse.outputs: absent, one output with up to MaxCrops crops, or
\* up to MaxOutputs outputs
OutputsSet ==
  {None}
  \cup {Some(<<Output(Some(c))>>) : c \in SeqsUpTo(CropSet, MaxCrops)}
  \cup {Some(o) : o \in SeqsUpTo(OutputSmall, MaxOutputs)}
OutputsSmall == {None, Some(<<>>), Some(<<Output(None)>>),
                 Some(<<Output(Some(<<Crop("base64", "A")>>))>>)}

NoClass == [kind |-> "undefined", chars |-> <<>>]
Str(chars) == [kind |-> "string", chars |-> chars]
NotAString == [kind |-> "other", chars |-> <<>>]
Pred(c, k, x, img) ==
  Some([class |-> c, confidence |-> k,
        x |-> x, y |-> Some(20), width |-> Some(30), height |-> Some(40),
        crop |-> img.crop, crops |-> img.crops, image |-> img.image])
ImgCrop == [crop |-> Some([image |-> Some("P")]), crops |-> None, image |-> None]
ImageSources ==
  {[crop |-> None, crops |-> None, image |-> None],
   [crop |-> Some([image |-> Some("")]),
    crops |-> Some(<<Some([image |-> Some("Q")])>>), image |-> None],
   [crop |-> None, crops |-> Some(<<>>), image |-> Some("R")],
   [crop |-> Some([image |-> Some("S")]), crops |-> None, image |-> Some("T")],
   [crop |-> Some([image |-> None]),
    crops |-> Some(<<Some([image |-> Some("")])>>), image |-> Some("")],
   [crop |-> None, crops |-> Some(<<None>>), image |-> Some("U")]}
PredSet ==
  {None}
  \cup {Pred(c, Some(k), Some(10), ImgCrop) :
          c \in {NoClass, Str(<<>>), Str(<<"d","o","g">>), Str(<<"D","o","G">>),
                 Str(<<"c","a","t">>)},
          k \in {50, 51}}
  \cup {Pred(Str(DogClass), None, Some(10), ImgCrop),
        Pred(Str(DogClass), Some(90), None, ImgCrop),
        Pred(NotAString, Some(90), Some(10), ImgCrop)}
  \cup {Pred(Str(DogClass), Some(90), Some(10), i) : i \in ImageSources}

\* roboflowResponse.predictions: absent, or up to MaxPreds predictions
PredictionsSet == {None} \cup {Some(q) : q \in SeqsUpTo(PredSet, MaxPreds)}
PredictionsSmall ==
  {None, Some(<<Pred(Str(DogClass), Some(90), Some(10), ImgCrop)>>),
   Some(<<None>>)}

\* response.data: null, or an object
Responses ==
  {None}
  \cup {Some([outputs |-> o, predictions |-> q]) :
          o \in OutputsSet, q \in PredictionsSmall}
  \cup {Some([outputs |-> o, predictions |-> q]) :
          o \in OutputsSmall, q \in PredictionsSet}

\* the answers drawn in the runs of the whole request
VendorData ==
  {None,
   Some([outputs |-> None, predictions |-> None]),
   Some([outputs |-> Some(<<Output(Some(<<Crop("base64", "A"), Crop("base64", "B")>>))>>),
         predictions |-> Some(<<Pred(Str(DogClass), Some(90), Some(10), ImgCrop)>>)]),
   Some([outputs |-> Some(<<Output(Some(<<Crop("base64", "A")>>)), None>>),
         predictions |-> None]),
   Some([outputs |-> None,
         predictions |-> Some(<<Pred(Str(<<"D","o","G">>), Some(51), Some(10), ImgCrop),
                                Pred(Str(DogClass), Some(50), Some(10), ImgCrop)>>)]),
   Some([outputs |-> None, predictions |-> Some(<<None>>)])}

Statuses == {200, 399, 400, 404, 429, 500}
RejectReasons == {"network", "timeout"}
InitialDelays == {DefaultInitialDelayMs, 250}

\* ------------------------------------------------------------------------
\* State
\* ------------------------------------------------------------------------
VARIABLES
  pc,             \* "idle", "inflight", "backoff", "done"; "normalize", "normalized"
  entry,          \* "none", "endpoint" (POST api/detect-dogs), "direct"
  body,           \* the request body's image
  file,           \* the file handed to the service: its mimetype
  serviceCalls,   \* calls of DogDetectionService.detectDogs
  retryCount,     \* processWithRoboflow's retryCount
  initialDelayMs, \* processWithRoboflow's initialDelayMs
  attempt,        \* the loop variable
  outstanding,    \* vendor requests in flight
  requests,       \* vendor requests issued
  outcomes,       \* how the attempts ended, in order
  delays,         \* the delays waited (started), in order
  lastError,      \* lastError
  data,           \* the response data of the successful attempt
  returned,       \* how processWithRoboflow ended
  result,         \* the DetectionResult of the service
  reply           \* the endpoint's reply

vars == <<pc, entry, body, file, serviceCalls, retryCount, initialDelayMs,
          attempt, outstanding, requests, outcomes, delays, lastError, data,
          returned, result, reply>>

NotReturned == [state |-> "none", message |-> <<>>]

Init ==
  /\ pc = "idle"
  /\ entry = "none"
  /\ body = None
  /\ file = None
  /\ serviceCalls = 0
  /\ retryCount = 0
  /\ initialDelayMs = 0
  /\ attempt = 0
  /\ outstanding = 0
  /\ requests = 0
  /\ outcomes = <<>>
  /\ delays = <<>>
  /\ lastError = None
  /\ data = None
  /\ returned = NotReturned
  /\ result = None
  /\ reply = NoReply

\* ------------------------------------------------------------------------
\* processWithRoboflow, between its awaits
\* ------------------------------------------------------------------------
\* the end of processWithRoboflow and of its callers: outcome is what the
\* service's detectDogs hands to the controller
Finish(ret, outcome) ==
  /\ pc' = "done"
  /\ outstanding' = 0
  /\ returned' = ret
  /\ IF entry' = "endpoint"
     THEN /\ result' = outcome.value
          /\ reply' = ControllerReply(outcome)
     ELSE UNCHANGED <<result, reply>>

\* the loop test with attempt = k: the next request is issued, or the loop is
\* left and the error after it is thrown
EnterAttempt(k) ==
  /\ attempt' = k
  /\ IF LoopContinues(k, retryCount')
     THEN /\ pc' = "inflight"
          /\ outstanding' = 1
          /\ requests' = requests + 1
          /\ UNCHANGED <<returned, result, reply>>
     ELSE /\ requests' = requests
          /\ Finish([state |-> "thrown", message |-> ThrownMessage(lastError)],
                    ServiceCatch(ThrownMessage(lastError)))

\* the catch block of the loop
AttemptFailed(outcome, err) ==
  /\ outcomes' = Append(outcomes, outcome)
  /\ lastError' = Some(err)
  /\ UNCHANGED <<entry, body, file, serviceCalls, retryCount, initialDelayMs,
                 attempt, requests, data>>
  /\ IF NoRetry(err)
     THEN /\ Finish([state |-> "thrown", message |-> ThrownMessage(Some(err))],
                    ServiceCatch(ThrownMessage(Some(err))))
          /\ UNCHANGED delays
     ELSE /\ delays' = Append(delays, BackoffDelay(initialDelayMs, attempt))
          /\ pc' = "backoff"
          /\ outstanding' = 0
          /\ UNCHANGED <<returned, result, reply>>

\* ------------------------------------------------------------------------
\* Actions
\* ------------------------------------------------------------------------
\* POST api/detect-dogs, up to the first vendor request
PostDetectDogs(b) ==
  /\ pc = "idle"
  /\ body' = b
  /\ UNCHANGED <<outcomes, delays, lastError, data>>
  /\ IF ~IsSome(b) \/ Get(b) = <<>>
     THEN /\ reply' = BadRequest(<<"No image data provided">>)
          /\ pc' = "done"
          /\ entry' = "endpoint"
          /\ UNCHANGED <<file, serviceCalls, retryCount, initialDelayMs, attempt,
                         outstanding, requests, returned, result>>
     ELSE IF ~IsSome(RegexMatch(Get(b)))
     THEN /\ reply' = BadRequest(<<"Invalid image format. Please provide a valid base64 encoded image.">>)
          /\ pc' = "done"
          /\ entry' = "endpoint"
          /\ UNCHANGED <<file, serviceCalls, retryCount, initialDelayMs, attempt,
                         outstanding, requests, returned, result>>
     ELSE /\ entry' = "endpoint"
          /\ file' = Some([mimetype |-> FileMimetype(Get(RegexMatch(Get(b))))])
          /\ serviceCalls' = serviceCalls + 1
          /\ retryCount' = DefaultRetryCount
          /\ initialDelayMs' = DefaultInitialDelayMs
          /\ EnterAttempt(1)

\* a call of processWithRoboflow by another caller, with its own parameters
CallProcessWithRoboflow(count, delay) ==
  /\ pc = "idle"
  /\ entry' = "direct"
  /\ retryCount' = count
  /\ initialDelayMs' = delay
  /\ UNCHANGED <<body, file, serviceCalls, outcomes, delays, lastError, data>>
  /\ EnterAttempt(1)

\* the vendor answers the request in flight
VendorResponds(status, d) ==
  /\ pc = "inflight"
  /\ IF IsFailedStatus(status)
     THEN AttemptFailed([kind |-> "status", status |-> status],
                        HttpError(status))
     ELSE /\ outcomes' = Append(outcomes, [kind |-> "status", status |-> status])
          /\ data' = d
          /\ UNCHANGED <<entry, body, file, serviceCalls, retryCount, initialDelayMs,
                         attempt, requests, delays, lastError>>
          /\ Finish([state |-> "returned", message |-> <<>>], ServiceReturn(d))

\* axios.post rejects: no answer arrived
VendorRequestFails(reason) ==
  /\ pc = "inflight"
  /\ AttemptFailed([kind |-> reason, status |-> 0],
                   RejectError(reason))

\* the timer of the backoff delay fires
DelayElapses ==
  /\ pc = "backoff"
  /\ UNCHANGED <<entry, body, file, serviceCalls, retryCount, initialDelayMs,
                 outcomes, delays, lastError, data>>
  /\ EnterAttempt(attempt + 1)

Next ==
  \/ \E b \in Bodies : PostDetectDogs(b)
  \/ \E count \in 0..MaxRetryCount, delay \in InitialDelays :
       CallProcessWithRoboflow(count, delay)
  \/ \E reason \in RejectReasons : VendorRequestFails(reason)
  \/ \E status \in Statuses, d \in VendorData : VendorResponds(status, d)
  \/ DelayElapses

Spec == Init /\ [][Next]_vars

\* ------------------------------------------------------------------------
\* The normalization alone, on every response of Responses
\* ------------------------------------------------------------------------
InitNormalize ==
  /\ pc = "normalize"
  /\ entry = "endpoint"
  /\ body = None
  /\ file = None
  /\ serviceCalls = 1
  /\ retryCount = DefaultRetryCount
  /\ initialDelayMs = DefaultInitialDelayMs
  /\ attempt = 1
  /\ outstanding = 0
  /\ requests = 1
  /\ outcomes = <<[kind |-> "status", status |-> 200]>>
  /\ delays = <<>>
  /\ lastError = None
  /\ data \in Responses
  /\ returned = [state |-> "returned", message |-> <<>>]
  /\ result = None
  /\ reply = NoReply

\* detectDogs after processWithRoboflow returned data
Normalize ==
  /\ pc = "normalize"
  /\ pc' = "normalized"
  /\ result' = ServiceReturn(data).value
  /\ reply' = ControllerReply(ServiceReturn(data))
  /\ UNCHANGED <<entry, body, file, serviceCalls, retryCount, initialDelayMs,
                 attempt, outstanding, requests, outcomes, delays, lastError,
                 data, returned>>

NextNormalize == Normalize

SpecNormalize == InitNormalize /\ [][NextNormalize]_vars

\* ------------------------------------------------------------------------
\* Properties
\* ------------------------------------------------------------------------
\* s has the form data:image/<letters only>;base64,<data without a double quote>
IsDataUrl(s) ==
  \E n \in 0..Len(s) :
    /\ Len(s) >= Len(DataImagePrefix) + n + Len(Base64Sep)
    /\ SubSeq(s, 1, Len(DataImagePrefix)) = DataImagePrefix
    /\ \A j \in 1..n : s[Len(DataImagePrefix) + j] \in Letters
    /\ SubSeq(s, Len(DataImagePrefix) + n + 1,
              Len(DataImagePrefix) + n + Len(Base64Sep)) = Base64Sep
    /\ \A j \in (Len(DataImagePrefix) + n + Len(Base64Sep) + 1)..Len(s) :
         s[j] # Quote

Malformed(b) == ~IsSome(b) \/ Get(b) = <<>> \/ ~IsDataUrl(Get(b))

\* C1: a request whose image is absent, empty or no data URL of the pattern is
\* answered with a BadRequest (400), and neither a call of the service's
\* detectDogs nor a vendor request is made for it.
C1_MalformedRejected ==
  (entry = "endpoint" /\ Malformed(body)) =>
    /\ pc = "done"
    /\ reply.kind = "BadRequest"
    /\ serviceCalls = 0
    /\ requests = 0
    /\ outstanding = 0

C1_Witness ==
  /\ entry = "endpoint"
  /\ IsSome(body)
  /\ StartsWithAt(Get(body), 1, DataImagePrefix \o <<"p","n","g">> \o Base64Sep)
  /\ \E j \in 1..Len(Get(body)) : Get(body)[j] = Quote
  /\ reply.kind = "BadRequest"
  /\ serviceCalls = 0

\* the attempt with this outcome failed: the request errored, or the status
\* is 400 or above
FailedAttempt(o) == o.kind # "status" \/ o.status >= 400

\* C2: a call of processWithRoboflow issues at most retryCount vendor requests,
\* at most one of them is outstanding at any moment, and a request is issued
\* only when every earlier one has ended in failure.
C2_SequentialAttempts ==
  /\ requests <= retryCount
  /\ outstanding \in {0, 1}
  /\ requests = Len(outcomes) + outstanding
  /\ \A k \in 1..Len(outcomes) : k < requests => FailedAttempt(outcomes[k])

C2_Witness ==
  /\ entry = "endpoint"
  /\ retryCount = DefaultRetryCount
  /\ requests = retryCount
  /\ outstanding = 1
  /\ Len(outcomes) = retryCount - 1

RECURSIVE Pow2(_)
Pow2(n) == IF n = 0 THEN 1 ELSE 2 * Pow2(n - 1)

C4_FailurePassedThrough ==
  (/\ entry = "endpoint" /\ pc = "done" /\ serviceCalls = 1
   /\ \A k \in 1..Len(outcomes) : FailedAttempt(outcomes[k])) =>
    /\ Len(outcomes) > 0
    /\ IsSome(lastError)
    /\ LET last == outcomes[Len(outcomes)]
       IN Get(lastError).message =
            IF last.kind = "status"
            THEN <<"HTTP ", ToString(last.status), ": ", StatusText(last.status)>>
            ELSE IF last.kind = "timeout" THEN <<"timeout of 60000ms exceeded">>
            ELSE <<"Network Error">>
    /\ reply.kind = "result"
    /\ reply.body = result
    /\ IsSome(result)
    /\ Get(result).success = FALSE
    /\ Get(result).detectedDogs = <<>>
    /\ Get(result).error =
         Some(<<"Failed to detect dogs: ", "Roboflow API Error: ">>
              \o Get(lastError).message)

C4_Witness ==
  /\ entry = "endpoint" /\ pc = "done"
  /\ Len(outcomes) = DefaultRetryCount
  /\ outcomes[1].kind = "network"
  /\ outcomes[3] = [kind |-> "status", status |-> 429]
  /\ reply.kind = "result"
  /\ Get(result).error =
       Some(<<"Failed to detect dogs: ", "Roboflow API Error: ",
              "HTTP ", "429", ": ", "Too Many Requests">>)

\* the response has a null element in outputs
HasNullOutput(d) ==
  /\ IsSome(Get(d).outputs)
  /\ \E k \in 1..Len(Get(Get(d).outputs)) : ~IsSome(Get(Get(d).outputs)[k])

\* the response has an element in predictions that is null, or whose class is
\* a truthy value that is no string
HasBadPrediction(d) ==
  /\ IsSome(Get(d).predictions)
  /\ \E k \in 1..Len(Get(Get(d).predictions)) :
       \/ Get(d).predictions[1][k] = None
       \/ Get(d).predictions[1][k][1].class.kind = "other"

\* the crops of all outputs that are objects, in order
RECURSIVE AllCrops(_)
AllCrops(outputs) ==
  IF outputs = <<>> THEN <<>>
  ELSE (IF IsSome(Head(outputs)) /\ IsSome(Get(Head(outputs)).dynamic_crop)
        THEN Get(Get(Head(outputs)).dynamic_crop) ELSE <<>>)
       \o AllCrops(Tail(outputs))

IsGoodCrop(c) == IsSome(c) /\ Get(c).type = "base64" /\ Get(c).value # ""

\* the crops with type 'base64' and a non-empty value, in order
GoodCrops(d) ==
  IF IsSome(Get(d).outputs) THEN SelectSeq(AllCrops(Get(Get(d).outputs)), IsGoodCrop)
  ELSE <<>>

\* extractDogImages fails on this response data
NormalizationFails(d) ==
  \/ ~IsSome(d)
  \/ HasNullOutput(d)
  \/ GoodCrops(d) = <<>> /\ HasBadPrediction(d)

\* C5: a DetectionResult has success = TRUE exactly when a vendor attempt
\* succeeded; then it has no error and totalDetected is the number of detected
\* dogs; with success = FALSE it has no detected dogs and an error. A failure
\* inside extractDogImages leaves success = TRUE, with no detected dogs.
C5_ResultShape ==
  IsSome(result) =>
    LET r == Get(result)
    IN /\ r.success <=> \E k \in 1..Len(outcomes) : ~FailedAttempt(outcomes[k])
       /\ r.success =>
            /\ r.error = None
            /\ r.debugInfo.totalDetected = Some(Len(r.detectedDogs))
       /\ ~r.success => r.detectedDogs = <<>> /\ IsSome(r.error)
       /\ (r.success /\ NormalizationFails(data)) => r.detectedDogs = <<>>

C5_Witness ==
  /\ IsSome(result)
  /\ Get(result).success
  /\ IsSome(data)
  /\ HasNullOutput(data)
  /\ GoodCrops(data) # <<>>
  /\ Get(result).detectedDogs = <<>>
  /\ Get(result).debugInfo.totalDetected = Some(0)

\* C6 (as claimed): once an attempt was answered with a status in 400..499
\* other than 429, no further vendor request is issued in the call.
C6_NoRetryOnClientError ==
  \A k \in 1..Len(outcomes) :
    (/\ outcomes[k].kind = "status"
     /\ outcomes[k].status >= 400 /\ outcomes[k].status < 500
     /\ outcomes[k].status # 429) =>
      requests = k

\* C7: the call returns at the first attempt that is answered with a status
\* below 400: no request and no delay follows it; and an attempt is followed
\* by a delay, by another attempt or by the thrown error only when its request
\* errored or its status is 400 or above.
C7_StopsAtFirstSuccess ==
  \A k \in 1..Len(outcomes) :
    IF FailedAttempt(outcomes[k])
    THEN /\ Len(delays) >= k
         /\ returned.state = "returned" => k < Len(outcomes)
    ELSE /\ k = Len(outcomes)
         /\ requests = k
         /\ outstanding = 0
         /\ Len(delays) = k - 1
         /\ pc = "done"
         /\ returned.state = "returned"

C7_Witness ==
  /\ Len(outcomes) = 2
  /\ outcomes[1] = [kind |-> "status", status |-> 400]
  /\ outcomes[2] = [kind |-> "status", status |-> 399]
  /\ returned.state = "returned"
  /\ delays = <<initialDelayMs>>
  /\ requests = 2

\* the dogs are exactly the good crops, in order, each with confidence 1.0 and
\* an all-zero bounding box
DogsAreGoodCrops(dogs, d) ==
  /\ Len(dogs) = Len(GoodCrops(d))
  /\ \A i \in 1..Len(dogs) :
       /\ dogs[i].imageData = Get(GoodCrops(d)[i]).value
       /\ dogs[i].confidence = 100
       /\ dogs[i].bbox = [x |-> 0, y |-> 0, width |-> 0, height |-> 0]

\* C8 (as claimed): if a crop with type 'base64' and a non-empty value exists in
\* any element of outputs, the result is exactly those crops, in order.
C8_CropsTakePrecedence ==
  (pc = "normalized" /\ IsSome(data) /\ GoodCrops(data) # <<>>) =>
    DogsAreGoodCrops(Get(result).detectedDogs, data)

\* C8 (amended): if a crop with type 'base64' and a non-empty value exists and
\* no element of outputs is null, the result is exactly those crops, in order,
\* each with confidence 1.0 and an all-zero bounding box, and no prediction
\* contributes a dog; if an element of outputs is null, the result is empty.
C8_CropsTakePrecedenceAmended ==
  (pc = "normalized" /\ IsSome(data)) =>
    /\ (GoodCrops(data) # <<>> /\ ~HasNullOutput(data)) =>
         DogsAreGoodCrops(Get(result).detectedDogs, data)
    /\ HasNullOutput(data) => Get(result).detectedDogs = <<>>

C8_Witness ==
  /\ pc = "normalized"
  /\ IsSome(data)
  /\ ~HasNullOutput(data)
  /\ Len(GoodCrops(data)) = 2
  /\ IsSome(Get(data).predictions)
  /\ Get(Get(data).predictions) # <<>>
  /\ ~HasBadPrediction(data)
  /\ [i \in 1..2 |-> Get(result).detectedDogs[i].imageData] = <<"B", "A">>
  /\ Len(Get(result).detectedDogs) = 2

\* the image of a prediction: crop.image, else crops[0].image, else image
HasText(o) == IsSome(o) /\ Get(o) # ""
ImageOf(p) ==
  IF IsSome(p.crop) /\ HasText(Get(p.crop).image) THEN Get(p.crop).image
  ELSE IF IsSome(p.crops) /\ Get(p.crops) # <<>> /\ IsSome(Get(p.crops)[1])
          /\ HasText(Get(Get(p.crops)[1]).image)
       THEN Get(Get(p.crops)[1]).image
  ELSE IF HasText(p.image) THEN p.image
  ELSE None

IsDog(q) ==
  /\ IsSome(q)
  /\ Get(q).class.kind = "string"
  /\ Get(q).class.chars \in {<<a, b, c>> : a \in {"d", "D"}, b \in {"o", "O"},
                                           c \in {"g", "G"}}
  /\ IsSome(Get(q).confidence)
  /\ Get(Get(q).confidence) > 50
  /\ IsSome(ImageOf(Get(q)))

OrZero(o) == IF IsSome(o) THEN Get(o) ELSE 0

\* the dogs are exactly the qualifying predictions, in order
DogsAreGoodPredictions(dogs, d) ==
  LET good == SelectSeq(Get(Get(d).predictions), IsDog)
  IN /\ Len(dogs) = Len(good)
     /\ \A i \in 1..Len(dogs) :
          /\ dogs[i].imageData = Get(ImageOf(Get(good[i])))
          /\ dogs[i].confidence = Get(Get(good[i]).confidence)
          /\ dogs[i].bbox = [x      |-> OrZero(Get(good[i]).x),
                             y      |-> OrZero(Get(good[i]).y),
                             width  |-> OrZero(Get(good[i]).width),
                             height |-> OrZero(Get(good[i]).height)]

\* the predictions fallback is taken: the crops yielded no dog, and there are
\* predictions
InFallback(d) ==
  /\ IsSome(d)
  /\ ~HasNullOutput(d)
  /\ GoodCrops(d) = <<>>
  /\ IsSome(Get(d).predictions)

\* C9 (as claimed): in the predictions fallback the dogs are exactly, in order,
\* the predictions of class 'dog' (ignoring case) with confidence above 0.5 that
\* carry image data.
C9_FallbackFilters ==
  (pc = "normalized" /\ InFallback(data)) =>
    DogsAreGoodPredictions(Get(result).detectedDogs, data)

\* C9 (amended): in the predictions fallback, if no element of predictions is
\* null or has a truthy class that is no string, the dogs are exactly, in
\* order, the predictions of class 'dog' (ignoring case) with confidence above
\* 0.5 that carry image data (crop.image, else crops[0].image, else image),
\* each with the prediction's x, y, width and height; if there is such an
\* element, the result is empty. Every DetectedDog of any result has non-empty
\* imageData.
C9_FallbackFiltersAmended ==
  pc = "normalized" =>
    /\ (InFallback(data) /\ ~HasBadPrediction(data)) =>
         DogsAreGoodPredictions(Get(result).detectedDogs, data)
    /\ (InFallback(data) /\ HasBadPrediction(data)) =>
         Get(result).detectedDogs = <<>>
    /\ \A i \in 1..Len(Get(result).detectedDogs) :
         Get(result).detectedDogs[i].imageData # ""

C9_Witness ==
  /\ pc = "normalized"
  /\ InFallback(data)
  /\ ~HasBadPrediction(data)
  /\ Len(Get(Get(data).predictions)) = 2
  /\ Get(Get(Get(data).predictions)[1]).class.chars = <<"D","o","G">>
  /\ Get(Get(Get(data).predictions)[1]).confidence = Some(51)
  /\ IsDog(Get(Get(data).predictions)[2])
  /\ ~IsSome(Get(Get(Get(data).predictions)[2]).crop)
  /\ [i \in 1..2 |-> Get(result).detectedDogs[i].imageData] = <<"P", "R">>
  /\ Len(Get(result).detectedDogs) = 2

\* C10 (as claimed): a delay only ever separates two attempts, so a call that
\* ends with n failed attempts has waited n - 1 times.
C10_NoDelayAfterLastAttempt ==
  (pc = "done" /\ returned.state = "thrown" /\ Len(outcomes) > 0) =>
    Len(delays) = Len(outcomes) - 1

====
